---------------------------- MODULE Spec2Model ----------------------------
(***************************************************************************)
(* Model of the multi-session worker pool (BrowserPool), the per-session   *)
(* connection supervisor (ConnectionManager) and the state reclaimer       *)
(* (SessionCleaner) of the whatsapp-api service.                           *)
(*                                                                         *)
(* The program is single-threaded JavaScript: every handler runs without   *)
(* interruption up to its next `await`, so each action below is one such   *)
(* synchronous segment.  External calls (launch, close, probe, exec) are   *)
(* answered by a nondeterministic choice over the outcomes they can have.  *)
(* Time (Date.now()) is an abstract clock `now`; two readings taken        *)
(* without a Tick in between are equal (same millisecond).                 *)
(***************************************************************************)
EXTENDS Integers, FiniteSets, Sequences, TLC

\* ------------------------------------------------------------------ bounds
NumSessions == 3
MaxGen == 2
NumCalls == 2
MaxTime == 2
MaxLive == 3
MaxOps == 4
MaxClients == 2
MaxConnects == 2
MaxAttempts == 11
MaxProbes == 1
MaxTeardowns == 1
MaxDestroys == 2
JitterDraws == 2
NumMonitored == 2
MaxAge == 3
MaxReconnectCount == 11
MaxReport == 2
NumCounted == 1
MaxErrors == 6

\* ------------------------------------------------------- program constants
\* options.maxBrowsers (configuration); the scenario of the specification
\* uses capacity 2.
maxBrowsers == 2
\* maxIdleTime of performCleanup, in clock units of the model.
maxIdleTime == 1
\* SessionCleaner constructor: maxOrphanAge, in clock units of the model.
maxOrphanAge == 1
\* SessionCleaner: the lengths of the tempDirs, logFiles and cacheCommands
\* lists of cleanTempFiles, rotateLogFiles and cleanBrowserCache.
tempDirs == 4
logFiles == 3
cacheCommands == 2
\* ConnectionManager constructor; the delays are in milliseconds.
maxReconnectAttempts == 10
baseReconnectDelay == 2000
maxReconnectDelay == 60000
\* SessionMonitor.checkSessionHealth: 5 and 2 minutes, scaled to clock units
staleThreshold == 2
unhealthyThreshold == 1
\* SessionMonitor.performCorrectiveActions: reconnectCount > 10
cleanupReconnectCount == 10
\* SessionMonitor.getSessionDetails: errors.slice(-5)
recentErrors == 5
\* app.js setupSession: process.env.MAX_CONCURRENT_SESSIONS || 25, the value
\* getBrowserPool is given as maxBrowsers, scaled like maxBrowsers
MAX_CONCURRENT_SESSIONS == 2

Sessions == 1..NumSessions
Calls == 1..NumCalls
\* A worker (browser process) is identified by the session whose
\* createIsolatedBrowser call launched it and a generation number.
Workers == Sessions \X (1..MaxGen)
NoWorker == <<0, 0>>
NoStatus == -1
NoSession == 0
Clients == 1..MaxClients
\* Math.random() returns the midpoint (2r + 1) / (2 * JitterDraws) of one of
\* JitterDraws equal parts of [0, 1), for a draw r.
Draws == 0..(JitterDraws - 1)
NoClient == 0
Monitored == 1..NumMonitored
Counted == 1..NumCounted

VARIABLES
  \* BrowserPool
  browsers,       \* sessionId -> worker, NoWorker when the key is absent
  browserStatus,  \* sessionId -> status.lastUsed, NoStatus when absent
  inUse,          \* set of session ids
  live,           \* worker processes launched and not yet closed or crashed
  now,            \* Date.now()
  call,           \* the suspended pool operations (get, destroy, cleanup)
  started,        \* number of overlapping operations started so far
  out,            \* what the step just taken returned to its caller
  \* ConnectionManager (one supervisor)
  connectionState,
  reconnectAttempts,
  reconnectTimer,    \* "null", or the handle of a "pending" or a "fired" timeout
  finalDelay,        \* the delay the step just taken passed to setTimeout, else 0
  healthCheckTimer,  \* TRUE when the field holds an interval handle
  isDestroyed,
  client,            \* this.client: a client id, NoClient for null
  clients,           \* every client the factory produced: its condition
  timeouts,          \* number of reconnect timeouts set and neither fired nor cleared
  intervals,         \* number of health-check intervals set and not cleared
  bound,             \* the supervisor's own listeners are attached (bindEvents)
  waiting,           \* connect() calls suspended in waitForConnection
  destroying,        \* destroy() calls suspended at client.destroy()
  forcing,           \* forceReconnect() calls suspended at client.destroy()
  probing,           \* performHealthCheck calls suspended at the Promise.race
  querying,          \* ... suspended at client.getState(), their 5 s timer pending
  overdue,           \* ... suspended at client.getState(), their 5 s timer fired
  emitted,           \* what the step just taken logged and emitted
  terminal,          \* 'connection:failed' was emitted and forceReconnect not yet called
  \* SessionCleaner and the session folder it works on
  dirExists,         \* sessionId -> the directory session-<id> exists
  mtime,             \* sessionId -> modification time of that directory
  procs,             \* sessions whose worker process is running
  cleanerPc,         \* position of cleanOrphanSessions
  sessionDirs,       \* entries of the readdir snapshot not yet visited
  cleanerNow,        \* the `now` cleanOrphanSessions captured
  cleanerDir,        \* the session of the current loop iteration
  cleanupPc,         \* the sub-step performCleanup is awaiting
  remaining,         \* items of that sub-step's list not yet handled
  cleanupReport,     \* the cleanupReport object of the sweep under way
  cleanerLog,        \* the console.error lines of this sweep: about an entry, about a sub-step
  returned,          \* what the step just taken returned to performCleanup's caller
  \* SessionMonitor (the registry) and the supervisors it was handed
  sessions,          \* keys of this.sessions, in insertion order
  lastSeenAge,       \* sessionId -> now - sessionInfo.lastSeen, in clock units
  reconnectCount,    \* sessionId -> sessionInfo.reconnectCount
  isRunning,
  monitorPc,         \* position of performMonitoring
  pending,           \* entries the for-of iterator over this.sessions has yet to visit
  probed,            \* the entry checkSessionHealth is suspended on, at client.getState()
  healthReport,      \* healthReport.sessions: built by the loop, consumed by the corrective actions
  managerDestroyed,  \* sessions whose supervisor's destroy() has completed
  monitorOut,        \* what the step just taken classified, forced or emitted
  listeners,         \* sessionId -> the listeners on the session's client and supervisor
  errors,            \* sessionId -> length of sessionInfo.errors
  \* app.js: the session map and the automatic initialization of its clients
  appSessions,       \* keys of the `sessions` Map of app.js
  pageClosed,        \* sessions of that Map whose client.pupPage is closed
  immediates,        \* sessions whose setImmediate callback has not run yet
  lastReply,         \* what the last setupSession call returned to its caller
  initLog            \* what the setImmediate callback just run logged

poolVars == <<browsers, browserStatus, inUse, live, now, call, started, out>>

cmVars == <<connectionState, reconnectAttempts, reconnectTimer, finalDelay, healthCheckTimer,
            isDestroyed, client, clients, timeouts, intervals, bound, waiting,
            destroying, forcing, probing, querying, overdue, emitted, terminal>>

cleanerVars == <<dirExists, mtime, procs, cleanerPc, sessionDirs, cleanerNow, cleanerDir,
                 cleanupPc, remaining, cleanupReport, cleanerLog, returned>>

monitorVars == <<sessions, lastSeenAge, reconnectCount, isRunning, monitorPc, pending, probed,
                 healthReport, managerDestroyed, monitorOut, listeners, errors>>

appVars == <<appSessions, pageClosed, immediates, lastReply, initLog>>

vars == <<browsers, browserStatus, inUse, live, now, call, started, out,
          connectionState, reconnectAttempts, reconnectTimer, finalDelay, healthCheckTimer,
          isDestroyed, client, clients, timeouts, intervals, bound, waiting,
          destroying, forcing, probing, querying, overdue, emitted, terminal,
          dirExists, mtime, procs, cleanerPc, sessionDirs, cleanerNow, cleanerDir,
          cleanupPc, remaining, cleanupReport, cleanerLog, returned,
          sessions, lastSeenAge, reconnectCount, isRunning, monitorPc, pending, probed,
          healthReport, managerDestroyed, monitorOut, listeners, errors,
          appSessions, pageClosed, immediates, lastReply, initLog>>

\* --------------------------------------------------------------- the pool
Pool == [browsers |-> browsers, browserStatus |-> browserStatus,
         inUse |-> inUse, live |-> live]

SetPool(P) ==
  /\ browsers' = P.browsers
  /\ browserStatus' = P.browserStatus
  /\ inUse' = P.inUse
  /\ live' = P.live

Tracked(P) == {s \in Sessions : P.browsers[s] # NoWorker}
Size(P) == Cardinality(Tracked(P))
HasStatus(P) == {s \in Sessions : P.browserStatus[s] # NoStatus}

IdleCall == [pc |-> "idle", sid |-> NoSession, target |-> NoSession,
             ref |-> NoWorker, todo |-> {}]
NoOut == [op |-> "none", sid |-> NoSession, result |-> "none"]
Output(op, sid, result) == [op |-> op, sid |-> sid, result |-> result]

\* One synchronous segment of a call leaves the pool in state `pool`, the
\* call suspended as `rec` (idle when it has returned) and hands `out` to the
\* caller.
Outcome(P, rec, o) == [pool |-> P, rec |-> rec, out |-> o]
Suspended(P, pc, sid, target, ref) ==
  Outcome(P, [IdleCall EXCEPT !.pc = pc, !.sid = sid, !.target = target,
                              !.ref = ref], NoOut)
Returned(P, op, sid, result) == Outcome(P, IdleCall, Output(op, sid, result))

Creator(w) == w[1]

\* The three deletes shared by the 'disconnected' handler and by
\* destroyBrowserForSession.
DeleteRecords(P, s) ==
  [P EXCEPT !.browsers[s] = NoWorker,
            !.browserStatus[s] = NoStatus,
            !.inUse = @ \ {s}]

\* browser.on('disconnected') registered by createIsolatedBrowser: it deletes
\* the records kept under the session id the worker was launched for.
OnDisconnected(P, w) ==
  IF w \in P.live
    THEN [DeleteRecords(P, Creator(w)) EXCEPT !.live = @ \ {w}]
    ELSE P

\* The part of destroyBrowserForSession after its awaits: browser.pages(),
\* page.close() and browser.close() either all went through (ok), and the
\* records are deleted, or one of them threw and the catch only logs.
AfterClose(P, target, ref, ok) ==
  IF ok THEN DeleteRecords(OnDisconnected(P, ref), target) ELSE P

\* freeOldestBrowser's loop without its `!this.inUse.has(sessionId)` test.
OldestOfAll(P, t) ==
  LET any == {s \in HasStatus(P) : P.browserStatus[s] < t}
  IN {s \in any : \A o \in any : P.browserStatus[s] <= P.browserStatus[o]}

\* freeOldestBrowser's loop: the idle session with the least lastUsed that is
\* strictly before oldestTime = Date.now().  Map iteration order decides among
\* equal lastUsed values; every order is allowed here.
OldestIdle(P, t) ==
  LET idle == {s \in HasStatus(P) : s \notin P.inUse /\ P.browserStatus[s] < t}
  IN {s \in idle : \A o \in idle : P.browserStatus[s] <= P.browserStatus[o]}

\* The identity of the next worker puppeteer.launch produces for session s.
Referenced(P, w) ==
  \/ w \in P.live
  \/ \E s \in Sessions : P.browsers[s] = w
  \/ \E c \in Calls : call[c].ref = w
FreshWorkers(P, s) ==
  LET free == {g \in 1..MaxGen : ~Referenced(P, <<s, g>>)}
  IN {<<s, g>> : g \in {h \in free : \A k \in free : h <= k}}

\* createIsolatedBrowser up to `await puppeteer.launch(config)`.
createIsolatedBrowser(P, sid) == Suspended(P, "launch", sid, NoSession, NoWorker)

\* getBrowserForSession from "Verificar limite de browsers" on, up to the
\* next await.  freeOldestBrowser returns oldestSession whatever its
\* destroyBrowserForSession does, also when that session has no browser.
CapacityCheck(P, sid, t) ==
  IF Size(P) >= maxBrowsers
    THEN IF OldestIdle(P, t) = {}
           THEN {Returned(P, "get", sid, "capacity_exceeded")}
           ELSE {IF P.browsers[o] # NoWorker
                   THEN Suspended(P, "evict", sid, o, P.browsers[o])
                   ELSE createIsolatedBrowser(P, sid)
                 : o \in OldestIdle(P, t)}
    ELSE {createIsolatedBrowser(P, sid)}

\* getBrowserForSession, first segment.
GetStart(P, sid, t) ==
  IF P.browsers[sid] # NoWorker
    THEN {Suspended(P, "probe", sid, NoSession, P.browsers[sid])}
    ELSE CapacityCheck(P, sid, t)

\* The healthy branch without `status.lastUsed = Date.now()`.
ProbeDoneStale(P, rec, t) ==
  LET sid == rec.sid
      healthy == [P EXCEPT !.inUse = @ \cup {sid}]
  IN (IF rec.ref \in P.live THEN {Returned(healthy, "get", sid, "reused")} ELSE {})
     \cup (IF P.browsers[sid] # NoWorker
             THEN {Suspended(P, "destroyUnhealthy", sid, sid, P.browsers[sid])}
             ELSE CapacityCheck(P, sid, t))

\* isBrowserHealthy returns: true needs a connected worker that opened and
\* closed a page; a live worker may still fail the probe.  On true the
\* worker is marked in use and its status written back; on false
\* destroyBrowserForSession(sessionId) starts.
ProbeDone(P, rec, t) ==
  LET sid == rec.sid
      healthy == [P EXCEPT !.inUse = @ \cup {sid}, !.browserStatus[sid] = t]
  IN (IF rec.ref \in P.live THEN {Returned(healthy, "get", sid, "reused")} ELSE {})
     \cup (IF P.browsers[sid] # NoWorker
             THEN {Suspended(P, "destroyUnhealthy", sid, sid, P.browsers[sid])}
             ELSE CapacityCheck(P, sid, t))

\* destroyBrowserForSession of the unhealthy worker returns, then the
\* capacity check runs.
UnhealthyDestroyDone(P, rec, t) ==
  UNION {CapacityCheck(AfterClose(P, rec.target, rec.ref, ok), rec.sid, t)
         : ok \in BOOLEAN}

\* freeOldestBrowser's destroyBrowserForSession returns and
\* createIsolatedBrowser starts.
EvictDone(P, rec, t) ==
  {createIsolatedBrowser(AfterClose(P, rec.target, rec.ref, ok), rec.sid)
   : ok \in BOOLEAN}

\* puppeteer.launch returns: the worker is registered and marked in use, or
\* the launch threw and the error is rethrown.
LaunchDone(P, rec, t) ==
  LET sid == rec.sid IN
  {Returned([P EXCEPT !.live = @ \cup {w}, !.browsers[sid] = w,
                      !.browserStatus[sid] = t, !.inUse = @ \cup {sid}],
            "get", sid, "created")
   : w \in IF Cardinality(P.live) < MaxLive THEN FreshWorkers(P, sid) ELSE {}}
  \cup {Returned(P, "get", sid, "launch_failed")}

\* destroyBrowserForSession called directly (session deletion).
DestroyStart(P, sid) ==
  IF P.browsers[sid] # NoWorker
    THEN {Suspended(P, "destroy", sid, sid, P.browsers[sid])}
    ELSE {Returned(P, "destroy", sid, "absent")}

DestroyDone(P, rec, t) ==
  {Returned(AfterClose(P, rec.target, rec.ref, ok), "destroy", rec.sid,
            IF ok THEN "destroyed" ELSE "failed") : ok \in BOOLEAN}

\* releaseBrowserForSession has no await: it runs as one segment.
Released(P, sid, t) ==
  [P EXCEPT !.inUse = @ \ {sid},
            !.browserStatus[sid] = IF @ # NoStatus THEN t ELSE @]

\* performCleanup: the sessions to clean are fixed first, then destroyed one
\* after the other, each destroy suspending at its awaits.  A listed session
\* without a browser is skipped without suspension.
SessionsToClean(P, t) ==
  {s \in HasStatus(P) : s \notin P.inUse /\ t - P.browserStatus[s] > maxIdleTime}

SweepNext(P, todo) ==
  LET tr == {s \in todo : P.browsers[s] # NoWorker} IN
  IF tr = {}
    THEN {Returned(P, "cleanup", NoSession, "done")}
    ELSE {Outcome(P, [IdleCall EXCEPT !.pc = "closing", !.target = s,
                        !.ref = P.browsers[s], !.todo = (todo \ {s}) \ U], NoOut)
          : s \in tr, U \in SUBSET (todo \ tr)}

SweepStart(P, t) == SweepNext(P, SessionsToClean(P, t))

SweepDone(P, sw, t) ==
  UNION {SweepNext(AfterClose(P, sw.target, sw.ref, ok), sw.todo) : ok \in BOOLEAN}

\* The continuation of a suspended call.
Resume(P, rec, t) ==
  CASE rec.pc = "probe" -> ProbeDone(P, rec, t)
    [] rec.pc = "destroyUnhealthy" -> UnhealthyDestroyDone(P, rec, t)
    [] rec.pc = "evict" -> EvictDone(P, rec, t)
    [] rec.pc = "launch" -> LaunchDone(P, rec, t)
    [] rec.pc = "destroy" -> DestroyDone(P, rec, t)
    [] rec.pc = "closing" -> SweepDone(P, rec, t)
    [] OTHER -> {}

\* ---------------------------------------------------------- initial state
PoolInit ==
  /\ browsers = [s \in Sessions |-> NoWorker]
  /\ browserStatus = [s \in Sessions |-> NoStatus]
  /\ inUse = {}
  /\ live = {}
  /\ now = 0
  /\ call = [c \in Calls |-> IdleCall]
  /\ started = 0
  /\ out = NoOut

CMInit ==
  /\ connectionState = "disconnected"
  /\ reconnectAttempts = 0
  /\ reconnectTimer = "null"
  /\ finalDelay = 0
  /\ healthCheckTimer = FALSE
  /\ isDestroyed = FALSE
  /\ client = NoClient
  /\ clients = [k \in Clients |-> [made |-> FALSE, ready |-> FALSE, destroyed |-> FALSE]]
  /\ timeouts = 0
  /\ intervals = 0
  /\ bound = TRUE
  /\ waiting = 0
  /\ destroying = 0
  /\ forcing = 0
  /\ probing = 0
  /\ querying = 0
  /\ overdue = 0
  /\ emitted = {}
  /\ terminal = FALSE

\* The cleanupReport literal of performCleanup: the stats start at 0 and the
\* actions list is empty.  The list is kept as the set of the `type` fields
\* pushed; the timestamps, paths and sizes are left out, and so are the
\* counters tempFilesRemoved, logFilesRotated and spaceSaved, which are
\* raised where an action of their type is pushed.
NewReport == [orphanSessionsRemoved |-> 0, actions |-> {}]

NoReport == [kind |-> "none", report |-> NewReport, log |-> {}]

CleanerInit ==
  /\ dirExists = [s \in Sessions |-> FALSE]
  /\ mtime = [s \in Sessions |-> 0]
  /\ procs = {}
  /\ cleanerPc = "idle"
  /\ sessionDirs = {}
  /\ cleanerNow = 0
  /\ cleanerDir = NoSession
  /\ cleanupPc = "idle"
  /\ remaining = 0
  /\ cleanupReport = NewReport
  /\ cleanerLog = {}
  /\ returned = NoReport

NoProbe == [sessionId |-> NoSession, status |-> "none"]

MonitorInit ==
  /\ sessions = <<>>
  /\ lastSeenAge = [s \in Monitored |-> 0]
  /\ reconnectCount = [s \in Monitored |-> 0]
  /\ isRunning = FALSE
  /\ monitorPc = "idle"
  /\ pending = <<>>
  /\ probed = NoProbe
  /\ healthReport = <<>>
  /\ managerDestroyed = {}
  /\ monitorOut = {}
  /\ listeners = [s \in Monitored |-> {}]
  /\ errors = [s \in Monitored |-> 0]

NoReply == [sid |-> NoSession, success |-> FALSE]
NoLog == [sid |-> NoSession, result |-> "none"]

AppInit ==
  /\ appSessions = {}
  /\ pageClosed = {}
  /\ immediates = {}
  /\ lastReply = NoReply
  /\ initLog = NoLog

Init == PoolInit /\ CMInit /\ CleanerInit /\ MonitorInit /\ AppInit

\* ------------------------------------------------- pool, concurrent calls
\* A new call takes the first free slot.
FreeSlot(c) == call[c].pc = "idle" /\ \A d \in Calls : call[d].pc = "idle" => c <= d

Apply(c, o) ==
  /\ SetPool(o.pool)
  /\ call' = [call EXCEPT ![c] = o.rec]
  /\ out' = o.out
  /\ UNCHANGED <<now, cmVars, cleanerVars, monitorVars, appVars>>

\* The start of an operation that may overlap with others.
Begin(c, segment) ==
  /\ FreeSlot(c)
  /\ started < MaxOps
  /\ started' = started + 1
  /\ \E o \in segment : Apply(c, o)

Continue(c, pc, segment) ==
  /\ call[c].pc = pc
  /\ \E o \in segment : Apply(c, o)
  /\ UNCHANGED started

GetBegin(c, sid) == Begin(c, GetStart(Pool, sid, now))

ProbeFinish(c) == Continue(c, "probe", ProbeDone(Pool, call[c], now))

UnhealthyDestroyFinish(c) ==
  Continue(c, "destroyUnhealthy", UnhealthyDestroyDone(Pool, call[c], now))

EvictFinish(c) == Continue(c, "evict", EvictDone(Pool, call[c], now))

LaunchFinish(c) == Continue(c, "launch", LaunchDone(Pool, call[c], now))

DestroyBegin(c, sid) == Begin(c, DestroyStart(Pool, sid))

DestroyFinish(c) == Continue(c, "destroy", DestroyDone(Pool, call[c], now))

releaseBrowserForSession(sid) ==
  /\ SetPool(Released(Pool, sid, now))
  /\ out' = Output("release", sid, "done")
  /\ UNCHANGED <<now, call, started, cmVars, cleanerVars, monitorVars, appVars>>

SweepBegin(c) == Begin(c, SweepStart(Pool, now))

SweepFinish(c) == Continue(c, "closing", SweepDone(Pool, call[c], now))

\* A worker process dies or loses its connection: 'disconnected' fires.
Crash(w) ==
  /\ w \in live
  /\ SetPool(OnDisconnected(Pool, w))
  /\ out' = NoOut
  /\ UNCHANGED <<now, call, started, cmVars, cleanerVars, monitorVars, appVars>>

Tick ==
  /\ now < MaxTime
  /\ now' = now + 1
  /\ out' = NoOut
  /\ UNCHANGED <<browsers, browserStatus, inUse, live, call, started, cmVars, cleanerVars, monitorVars, appVars>>

NextPool ==
  \/ \E c \in Calls, sid \in Sessions : GetBegin(c, sid)
  \/ \E c \in Calls : ProbeFinish(c)
  \/ \E c \in Calls : UnhealthyDestroyFinish(c)
  \/ \E c \in Calls : EvictFinish(c)
  \/ \E c \in Calls : LaunchFinish(c)
  \/ \E c \in Calls, sid \in Sessions : DestroyBegin(c, sid)
  \/ \E c \in Calls : DestroyFinish(c)
  \/ \E sid \in Sessions : releaseBrowserForSession(sid)
  \/ \E c \in Calls : SweepBegin(c)
  \/ \E c \in Calls : SweepFinish(c)
  \/ \E w \in Workers : Crash(w)
  \/ Tick

SpecPool == Init /\ [][NextPool]_vars

\* Worker launch and close terminate: puppeteer.launch, browser.pages(),
\* page.close() and browser.close() settle.  Nothing of the kind holds for
\* the probe: isBrowserHealthy awaits browser.newPage() and page.close()
\* without racing them against a timer, so ProbeFinish is not forced.
LaunchAndCloseTerminate ==
  \A c \in Calls :
    /\ WF_vars(LaunchFinish(c))
    /\ WF_vars(UnhealthyDestroyFinish(c))
    /\ WF_vars(EvictFinish(c))
    /\ WF_vars(DestroyFinish(c))
    /\ WF_vars(SweepFinish(c))

SpecPoolLive == Init /\ [][NextPool]_vars /\ LaunchAndCloseTerminate

\* ------------------------------------------------- pool, serialized calls
\* Every pool operation runs to completion before the next one starts: an
\* operation is one step, made of the same segments in the same order, the
\* clock advancing freely between them.
RECURSIVE Complete(_, _, _)
Complete(P, rec, t) ==
  UNION {UNION {IF o.rec.pc = "idle"
                  THEN {[pool |-> o.pool, out |-> o.out, now |-> u]}
                  ELSE Complete(o.pool, o.rec, u)
                : o \in Resume(P, rec, u)}
         : u \in t..MaxTime}

RunPool(first) ==
  \E o \in first :
    IF o.rec.pc = "idle"
      THEN SetPool(o.pool) /\ out' = o.out /\ now' = now
      ELSE \E f \in Complete(o.pool, o.rec, now) :
             SetPool(f.pool) /\ out' = f.out /\ now' = f.now

RunToCompletion(first) ==
  /\ RunPool(first)
  /\ UNCHANGED <<call, started, cmVars, cleanerVars, monitorVars, appVars>>

SerialGet(sid) == RunToCompletion(GetStart(Pool, sid, now))
SerialDestroy(sid) == RunToCompletion(DestroyStart(Pool, sid))
SerialSweep == RunToCompletion(SweepStart(Pool, now))

NextPoolSerial ==
  \/ \E sid \in Sessions : SerialGet(sid)
  \/ \E sid \in Sessions : SerialDestroy(sid)
  \/ \E sid \in Sessions : releaseBrowserForSession(sid)
  \/ SerialSweep
  \/ \E w \in Workers : Crash(w)
  \/ Tick

SpecPoolSerial == Init /\ [][NextPoolSerial]_vars

\* ---------------------------------------------------- the supervisor
\* The supervisor's fields and the bookkeeping of what is pending for it.
CM == [connectionState |-> connectionState, reconnectAttempts |-> reconnectAttempts,
       reconnectTimer |-> reconnectTimer, finalDelay |-> 0,
       healthCheckTimer |-> healthCheckTimer,
       isDestroyed |-> isDestroyed, client |-> client, clients |-> clients,
       timeouts |-> timeouts, intervals |-> intervals, bound |-> bound,
       waiting |-> waiting, destroying |-> destroying, forcing |-> forcing,
       probing |-> probing, querying |-> querying, overdue |-> overdue,
       emitted |-> {}, terminal |-> terminal]

SetCM(S) ==
  /\ connectionState' = S.connectionState
  /\ reconnectAttempts' = S.reconnectAttempts
  /\ reconnectTimer' = S.reconnectTimer
  /\ finalDelay' = S.finalDelay
  /\ healthCheckTimer' = S.healthCheckTimer
  /\ isDestroyed' = S.isDestroyed
  /\ client' = S.client
  /\ clients' = S.clients
  /\ timeouts' = S.timeouts
  /\ intervals' = S.intervals
  /\ bound' = S.bound
  /\ waiting' = S.waiting
  /\ destroying' = S.destroying
  /\ forcing' = S.forcing
  /\ probing' = S.probing
  /\ querying' = S.querying
  /\ overdue' = S.overdue
  /\ emitted' = S.emitted
  /\ terminal' = S.terminal
  /\ UNCHANGED <<poolVars, cleanerVars, monitorVars, appVars>>

Emit(S, e) == [S EXCEPT !.emitted = @ \cup {e}]

\* clearTimeout(this.reconnectTimer): a handle whose timeout already fired
\* clears nothing.
clearReconnectTimer(S) ==
  IF S.reconnectTimer = "pending" THEN [S EXCEPT !.timeouts = @ - 1] ELSE S

Min(a, b) == IF a <= b THEN a ELSE b

\* The delay without Math.min against maxReconnectDelay.
DelayUncapped(attempts) == baseReconnectDelay * 2^attempts

\* Math.min(baseReconnectDelay * Math.pow(2, reconnectAttempts), maxReconnectDelay)
Delay(attempts) == Min(baseReconnectDelay * 2^attempts, maxReconnectDelay)

\* delay * 2 * (Math.random() - 0.5): a jitter of 100% instead of 12.5%.
JitterFull(delay, r) == (delay * (2 * r + 1 - JitterDraws)) \div JitterDraws

\* delay * 0.25 * (Math.random() - 0.5).
Jitter(delay, r) == (delay * (2 * r + 1 - JitterDraws)) \div (8 * JitterDraws)

\* scheduleReconnect without its clearTimeout of the pending timer.
scheduleReconnectStacking(S, r) ==
  LET delay == Delay(S.reconnectAttempts)
  IN Emit([S EXCEPT !.timeouts = @ + 1,
                    !.reconnectTimer = "pending",
                    !.finalDelay = delay + Jitter(delay, r)],
          <<"schedule", "">>)

scheduleReconnect(S, r) ==
  LET delay == Delay(S.reconnectAttempts)
  IN Emit([clearReconnectTimer(S) EXCEPT !.timeouts = @ + 1,
                                         !.reconnectTimer = "pending",
                                         !.finalDelay = delay + Jitter(delay, r)],
          <<"schedule", "">>)

stopHealthCheck(S) ==
  IF S.healthCheckTimer
    THEN [S EXCEPT !.intervals = @ - 1, !.healthCheckTimer = FALSE]
    ELSE S

startHealthCheck(S) ==
  [stopHealthCheck(S) EXCEPT !.intervals = @ + 1, !.healthCheckTimer = TRUE]

\* handleConnectionLost without stopHealthCheck.
handleConnectionLostKeepLoop(S, r) ==
  LET D == [S EXCEPT !.connectionState = "disconnected"]
  IN IF ~D.isDestroyed THEN scheduleReconnect(D, r) ELSE D

handleConnectionLost(S, r) ==
  LET D == stopHealthCheck([S EXCEPT !.connectionState = "disconnected"])
  IN IF ~D.isDestroyed THEN scheduleReconnect(D, r) ELSE D

handleConnectionRestored(S) == [S EXCEPT !.connectionState = "connected"]

\* this.emit('connection:lost', reason) and this.emit('connection:restored'):
\* the handlers bound in bindEvents run unless removeAllListeners removed them.
EmitLost(S, reason, r) ==
  LET E == Emit(S, <<"connection:lost", reason>>)
  IN IF E.bound THEN handleConnectionLost(E, r) ELSE E

EmitRestored(S) ==
  LET E == Emit(S, <<"connection:restored", "">>)
  IN IF E.bound THEN handleConnectionRestored(E) ELSE E

handleConnectionFailure(S, r) ==
  LET A == [S EXCEPT !.reconnectAttempts = @ + 1]
  IN IF A.reconnectAttempts >= maxReconnectAttempts
       THEN Emit([A EXCEPT !.connectionState = "failed", !.terminal = TRUE],
                 <<"connection:failed", "">>)
       ELSE scheduleReconnect(A, r)

\* The client the factory produces next.
FreshClients(S) ==
  {k \in Clients : ~S.clients[k].made /\ \A j \in Clients : ~S.clients[j].made => k <= j}

\* connect() without its isDestroyed test.
connectUnguarded(S) ==
  LET C == Emit([S EXCEPT !.connectionState = "connecting"], <<"attempt", "">>)
  IN (IF S.reconnectAttempts < MaxAttempts
        THEN {handleConnectionFailure([C EXCEPT !.connectionState = "failed"], r) :
                r \in Draws}
        ELSE {})
     \cup (IF S.waiting < MaxConnects
             THEN {[C EXCEPT !.client = k, !.clients[k].made = TRUE,
                             !.waiting = @ + 1] : k \in FreshClients(S)}
             ELSE {})

\* connect() up to `await this.waitForConnection()`: the factory fails (the
\* catch runs) or produces a client, which is not ready yet.
connect(S) ==
  IF S.isDestroyed
    THEN {S}
    ELSE LET C == Emit([S EXCEPT !.connectionState = "connecting"], <<"attempt", "">>)
         IN (IF S.reconnectAttempts < MaxAttempts
               THEN {handleConnectionFailure([C EXCEPT !.connectionState = "failed"], r) :
                       r \in Draws}
               ELSE {})
            \cup (IF S.waiting < MaxConnects
                    THEN {[C EXCEPT !.client = k, !.clients[k].made = TRUE,
                                    !.waiting = @ + 1] : k \in FreshClients(S)}
                    ELSE {})

\* The first connect() of a supervisor that has nothing in progress.
CallConnect ==
  /\ connectionState = "disconnected" /\ ~isDestroyed
  /\ client = NoClient /\ waiting = 0 /\ timeouts = 0 /\ forcing = 0
  /\ \E S \in connect(CM) : SetCM(S)

\* A reconnect timeout fires: the one the field refers to, or another one.
TimeoutFires ==
  /\ timeouts > 0
  /\ \E mine \in BOOLEAN :
       /\ mine => reconnectTimer = "pending"
       /\ ~mine => timeouts > (IF reconnectTimer = "pending" THEN 1 ELSE 0)
       /\ \E S \in connect([CM EXCEPT !.timeouts = @ - 1,
                                      !.reconnectTimer = IF mine THEN "fired" ELSE @]) :
            SetCM(S)

\* waitForConnection resolves: checkConnection finds this.client.info.wid.
WaitResolves ==
  /\ waiting > 0
  /\ client # NoClient /\ clients[client].ready
  /\ SetCM(startHealthCheck(EmitRestored(
       [CM EXCEPT !.waiting = @ - 1, !.connectionState = "connected",
                  !.reconnectAttempts = 0])))

\* waitForConnection rejects with 'Connection timeout'.
WaitTimesOut ==
  /\ waiting > 0
  /\ reconnectAttempts < MaxAttempts
  /\ \E r \in Draws :
       SetCM(handleConnectionFailure(
         [CM EXCEPT !.waiting = @ - 1, !.connectionState = "failed"], r))

\* The client finishes its start-up: client.info.wid is set.
ClientReady(k) ==
  /\ clients[k].made /\ ~clients[k].ready /\ ~clients[k].destroyed
  /\ SetCM([CM EXCEPT !.clients[k].ready = TRUE])

\* The CONNECTED branch taken for a success: it also resets reconnectAttempts.
ChangeStateConnectedResetting(k) ==
  /\ clients[k].made
  /\ SetCM([CM EXCEPT !.connectionState = "connected", !.reconnectAttempts = 0])

\* client.on('change_state') with state CONNECTED.
ChangeStateConnected(k) ==
  /\ clients[k].made
  /\ SetCM([CM EXCEPT !.connectionState = "connected"])

LossReasons == {"state_changed", "disconnected", "auth_failure", "page_closed", "page_error"}

\* change_state DISCONNECTED, 'disconnected', 'auth_failure' of a client and
\* 'close' / 'error' of its page: each emits 'connection:lost'.
ClientLoss(k, reason) ==
  /\ clients[k].made
  /\ \E r \in Draws : SetCM(EmitLost(CM, reason, r))

\* performHealthCheck up to its first await; a closed page fails at once.
HealthInterval ==
  /\ intervals > 0
  /\ IF client = NoClient \/ connectionState # "connected"
       THEN SetCM(CM)
       ELSE \/ \E r \in Draws : SetCM(EmitLost(CM, "health_check_failed", r))
            \/ /\ probing + querying + overdue < MaxProbes
               /\ SetCM([CM EXCEPT !.probing = @ + 1])

\* The Promise.race of performHealthCheck settles: the page evaluation
\* resolved, or it rejected or the 5 s timer rejected first.  After a
\* resolution this.client.getState() is called, which throws without a client.
EvaluateReturns(resolved) ==
  /\ probing > 0
  /\ LET S == [CM EXCEPT !.probing = @ - 1]
     IN IF resolved /\ client # NoClient
          THEN SetCM([S EXCEPT !.querying = @ + 1])
          ELSE \E r \in Draws : SetCM(EmitLost(S, "health_check_failed", r))

\* The 5 s timer of a probe fires after its race has settled: nothing happens.
ProbeTimerFires ==
  /\ querying > 0
  /\ SetCM([CM EXCEPT !.querying = @ - 1, !.overdue = @ + 1])

\* client.getState() returns: 'CONNECTED' passes, any other state or a
\* rejection fails the probe.
ProbeReturns(late, passed) ==
  /\ IF late THEN overdue > 0 ELSE querying > 0
  /\ LET S == IF late THEN [CM EXCEPT !.overdue = @ - 1]
                      ELSE [CM EXCEPT !.querying = @ - 1]
     IN \E r \in Draws :
          SetCM(IF passed THEN S ELSE EmitLost(S, "health_check_failed", r))

\* destroy() up to `await this.client.destroy()`, or to its end when there is
\* no client.
destroyStart(S) ==
  LET D == Emit(stopHealthCheck(
                  [clearReconnectTimer([S EXCEPT !.isDestroyed = TRUE,
                                                 !.connectionState = "destroyed"])
                     EXCEPT !.reconnectTimer = "null"]),
                <<"destroy", "">>)
  IN IF D.client # NoClient
       THEN [D EXCEPT !.clients[D.client].destroyed = TRUE,
                      !.destroying = @ + 1, !.terminal = FALSE]
       ELSE [D EXCEPT !.bound = FALSE, !.terminal = FALSE]

\* destroy() with `this.client = null` inside the try block: skipped when
\* client.destroy() throws.
destroyEndInsideTry(S, threw) ==
  LET R == [S EXCEPT !.destroying = @ - 1, !.bound = FALSE]
  IN IF threw THEN Emit(R, <<"error", "destroy">>) ELSE [R EXCEPT !.client = NoClient]

\* destroy() after client.destroy() returned or threw (the catch logs the error).
destroyEnd(S, threw) ==
  LET R == [S EXCEPT !.destroying = @ - 1, !.client = NoClient, !.bound = FALSE]
  IN IF threw THEN Emit(R, <<"error", "destroy">>) ELSE R

CallDestroy ==
  /\ destroying < MaxDestroys
  /\ SetCM(destroyStart(CM))

DestroyReturns(threw) ==
  /\ destroying > 0
  /\ SetCM(destroyEnd(CM, threw))

\* forceReconnect() up to `await this.client.destroy()`, or through connect()
\* when there is no client.
CallForceReconnect ==
  /\ forcing < MaxTeardowns
  /\ LET F == [CM EXCEPT !.reconnectAttempts = 0, !.terminal = FALSE]
     IN IF F.client # NoClient
          THEN SetCM([F EXCEPT !.clients[F.client].destroyed = TRUE,
                               !.forcing = @ + 1])
          ELSE \E S \in connect(F) : SetCM(S)

\* forceReconnect() after client.destroy() returned or threw.
ForceReturns ==
  /\ forcing > 0
  /\ \E S \in connect([CM EXCEPT !.forcing = @ - 1, !.client = NoClient]) : SetCM(S)

NextSupervisor ==
  \/ CallConnect
  \/ TimeoutFires
  \/ WaitResolves
  \/ WaitTimesOut
  \/ \E k \in Clients : ClientReady(k)
  \/ \E k \in Clients : ChangeStateConnected(k)
  \/ \E k \in Clients, reason \in LossReasons : ClientLoss(k, reason)
  \/ HealthInterval
  \/ \E resolved \in BOOLEAN : EvaluateReturns(resolved)
  \/ ProbeTimerFires
  \/ \E late, passed \in BOOLEAN : ProbeReturns(late, passed)
  \/ CallDestroy
  \/ \E threw \in BOOLEAN : DestroyReturns(threw)
  \/ CallForceReconnect
  \/ ForceReturns

SpecSupervisor == Init /\ [][NextSupervisor]_vars

\* ------------------------------------------------- the session reclaimer
(***************************************************************************)
(* performCleanup awaits five sub-steps inside one try block and returns   *)
(* the report after it; forceCleanup returns what performCleanup returns,  *)
(* and the timer callback drops it.  A sub-step is modelled by what it     *)
(* does to the report and by whether its promise rejects; the outcomes of  *)
(* the file system and of exec are inputs.                                 *)
(***************************************************************************)
SubSteps == <<"orphans", "temp", "logs", "browserCache", "wwebjsCache">>

Position(step) == CHOOSE i \in 1..Len(SubSteps) : SubSteps[i] = step

\* the number of awaited calls the sub-step's own loop makes
Items(step) ==
  CASE step = "temp" -> tempDirs
    [] step = "logs" -> logFiles
    [] step = "browserCache" -> cacheCommands
    [] OTHER -> 0

\* directoryExists answers false, readdir rejects, or the entries are read
DirOutcomes == {"missing", "readdir_fails", "read"}
\* fileExists answers false, the file is below maxLogFileSize, it is rotated,
\* or stat / rename / writeFile rejects
LogOutcomes == {"missing", "small", "rotated", "fails"}

Push(report, type) == [report EXCEPT !.actions = @ \cup {type}]

Settled(report, threw, logged) == [report |-> report, threw |-> threw, logged |-> logged]

\* a sub-step's catch logs the rejection of one of its awaits
Logged(r) == cleanerLog \cup (IF r.logged THEN {"substep"} ELSE {})

\* performCleanup returns cleanupReport.
Return(report, log) ==
  /\ cleanupPc' = "idle"
  /\ remaining' = 0
  /\ cleanupReport' = NewReport
  /\ cleanerLog' = {}
  /\ returned' = [kind |-> "report", report |-> report, log |-> log]

\* performCleanup once the sub-step `step` has settled: a rejection lands in
\* the catch, which pushes an 'error' action; otherwise the next sub-step is
\* awaited, and after the last one the report is returned.
Advance(step, r) ==
  IF r.threw
    THEN Return(Push(r.report, "error"), Logged(r) \cup {"cleanup"})
    ELSE IF Position(step) = Len(SubSteps)
      THEN Return(r.report, Logged(r))
      ELSE /\ cleanupPc' = SubSteps[Position(step) + 1]
           /\ remaining' = Items(SubSteps[Position(step) + 1])
           /\ cleanupReport' = r.report
           /\ cleanerLog' = Logged(r)
           /\ returned' = NoReport

\* cleanTempFiles, rotateLogFiles and the loop of cleanBrowserCache: one
\* awaited call of the list has settled; none of the loops has a catch of
\* its own around the call.
Loop(step, r) ==
  IF ~r.threw /\ remaining > 1
    THEN /\ remaining' = remaining - 1
         /\ cleanupReport' = r.report
         /\ cleanerLog' = Logged(r)
         /\ returned' = NoReport
         /\ UNCHANGED cleanupPc
    ELSE Advance(step, r)

ToLoop(todo) ==
  /\ cleanerPc' = "loop"
  /\ sessionDirs' = todo
  /\ cleanerDir' = NoSession

SweepGoesOn == UNCHANGED <<cleanupPc, remaining, cleanupReport, cleanerLog>> /\ returned' = NoReport

\* performCleanup up to the loop of cleanOrphanSessions: the report is
\* created, then directoryExists, readdir and Date.now().  Without a session
\* folder the function returns, and a rejected readdir is logged by its outer
\* catch: either way there is no entry to visit.
CleanerStart(outcome) ==
  /\ cleanupPc = "idle" /\ cleanerPc = "idle"
  /\ ToLoop(IF outcome = "read" THEN {s \in Sessions : dirExists[s]} ELSE {})
  /\ cleanerNow' = now
  /\ cleanupPc' = "orphans"
  /\ remaining' = 0
  /\ cleanupReport' = NewReport
  /\ cleanerLog' = IF outcome = "readdir_fails" THEN {"substep"} ELSE {}
  /\ returned' = NoReport
  /\ UNCHANGED <<dirExists, mtime, procs, poolVars, cmVars, monitorVars, appVars>>

\* One loop iteration up to `await this.checkForActiveProcess(sessionId)`:
\* fs.stat rejects (always for a directory that is gone) and the catch of the
\* iteration logs it, and the age is taken against the captured `now`.
CleanerStat(s, statFails) ==
  /\ cleanerPc = "loop" /\ s \in sessionDirs
  /\ IF ~statFails /\ dirExists[s]
       THEN /\ IF cleanerNow - mtime[s] > maxOrphanAge
                 THEN /\ cleanerPc' = "lookup"
                      /\ cleanerDir' = s
                      /\ sessionDirs' = sessionDirs \ {s}
                 ELSE ToLoop(sessionDirs \ {s})
            /\ UNCHANGED cleanerLog
       ELSE /\ ToLoop(sessionDirs \ {s})
            /\ cleanerLog' = cleanerLog \cup {"entry"}
  /\ returned' = NoReport
  /\ UNCHANGED <<dirExists, mtime, procs, cleanerNow, cleanupPc, remaining, cleanupReport,
                 poolVars, cmVars, monitorVars, appVars>>

\* checkForActiveProcess: the ps pipeline lists the processes that carry the
\* session id, or exec fails and the catch answers false.
checkForActiveProcess(s, execFails) == ~execFails /\ s \in procs

\* The iteration after the lookup: fs.rm is issued when no process was found.
CleanerLookup(execFails) ==
  /\ cleanerPc = "lookup"
  /\ IF checkForActiveProcess(cleanerDir, execFails)
       THEN ToLoop(sessionDirs)
       ELSE /\ cleanerPc' = "remove"
            /\ UNCHANGED <<sessionDirs, cleanerDir>>
  /\ SweepGoesOn
  /\ UNCHANGED <<dirExists, mtime, procs, cleanerNow, poolVars, cmVars, monitorVars, appVars>>

\* removeDirectory: fs.rm with recursive and force; a rejection is logged by
\* removeDirectory itself, and the iteration counts the removal either way.
CleanerRemove(rmFails) ==
  /\ cleanerPc = "remove"
  /\ dirExists' = [dirExists EXCEPT ![cleanerDir] = rmFails /\ @]
  /\ mtime' = [mtime EXCEPT ![cleanerDir] = IF rmFails THEN @ ELSE 0]
  /\ ToLoop(sessionDirs)
  /\ cleanupReport' = Push([cleanupReport EXCEPT !.orphanSessionsRemoved = @ + 1],
                           "orphan_session_removed")
  /\ cleanerLog' = cleanerLog \cup (IF rmFails THEN {"entry"} ELSE {})
  /\ returned' = NoReport
  /\ UNCHANGED <<procs, cleanerNow, cleanupPc, remaining, poolVars, cmVars, monitorVars, appVars>>

\* The loop is over: cleanOrphanSessions returns.
CleanerEnd ==
  /\ cleanerPc = "loop" /\ sessionDirs = {}
  /\ cleanerPc' = "idle"
  /\ cleanerNow' = 0
  /\ Advance("orphans", Settled(cleanupReport, FALSE, FALSE))
  /\ UNCHANGED <<dirExists, mtime, procs, sessionDirs, cleanerDir, poolVars, cmVars, monitorVars, appVars>>

\* cleanTempDirectory with every await it makes inside its try block (the
\* mutant lets the rejection of readdir out).
cleanTempDirectoryUnguarded(report, outcome, removed) ==
  CASE outcome = "missing" -> Settled(report, FALSE, FALSE)
    [] outcome = "readdir_fails" -> Settled(report, TRUE, FALSE)
    [] outcome = "read" ->
         Settled(IF removed THEN Push(report, "temp_file_removed") ELSE report, FALSE, FALSE)

\* cleanTempDirectory(tempDir, report): no directory, a rejected readdir
\* (caught and logged), or the entries are visited, each inside a try whose
\* catch is empty, and `removed` tells whether one of them was unlinked.
cleanTempDirectory(report, outcome, removed) ==
  CASE outcome = "missing" -> Settled(report, FALSE, FALSE)
    [] outcome = "readdir_fails" -> Settled(report, FALSE, TRUE)
    [] outcome = "read" ->
         Settled(IF removed THEN Push(report, "temp_file_removed") ELSE report, FALSE, FALSE)

\* rotateLogFile(logFilePath, report): everything is inside its try block.
rotateLogFile(report, outcome) ==
  CASE outcome = "rotated" ->
         Settled(Push(report, "log_file_rotated"), FALSE, FALSE)
    [] outcome = "fails" -> Settled(report, FALSE, TRUE)
    [] OTHER -> Settled(report, FALSE, FALSE)

\* cleanBrowserCache, one command of its loop: a failed exec is swallowed by
\* the empty catch around it, and after the last command the action
\* 'browser_cache_cleaned' is pushed.
cleanBrowserCache(report, last, execFails) ==
  Settled(IF last THEN Push(report, "browser_cache_cleaned") ELSE report, FALSE, FALSE)

\* cleanWwebjsCache(report): as cleanTempDirectory, with one action for all
\* the files removed.
cleanWwebjsCache(report, outcome, removed) ==
  CASE outcome = "missing" -> Settled(report, FALSE, FALSE)
    [] outcome = "readdir_fails" -> Settled(report, FALSE, TRUE)
    [] outcome = "read" ->
         Settled(IF removed THEN Push(report, "wwebjs_cache_cleaned") ELSE report, FALSE, FALSE)

EnvUnchanged ==
  UNCHANGED <<dirExists, mtime, procs, cleanerPc, sessionDirs, cleanerNow, cleanerDir,
              poolVars, cmVars, monitorVars, appVars>>

CleanTempDirectory(outcome, removed) ==
  /\ cleanupPc = "temp"
  /\ Loop("temp", cleanTempDirectory(cleanupReport, outcome, removed))
  /\ EnvUnchanged

RotateLogFile(outcome) ==
  /\ cleanupPc = "logs"
  /\ Loop("logs", rotateLogFile(cleanupReport, outcome))
  /\ EnvUnchanged

CleanBrowserCache(execFails) ==
  /\ cleanupPc = "browserCache"
  /\ Loop("browserCache", cleanBrowserCache(cleanupReport, remaining = 1, execFails))
  /\ EnvUnchanged

CleanWwebjsCache(outcome, removed) ==
  /\ cleanupPc = "wwebjsCache"
  /\ Advance("wwebjsCache", cleanWwebjsCache(cleanupReport, outcome, removed))
  /\ EnvUnchanged

\* A worker is launched with --user-data-dir=session-<id>: the directory is
\* created when missing, and an existing one may or may not be written to.
StartWorker(s, touch) ==
  /\ s \notin procs
  /\ procs' = procs \cup {s}
  /\ dirExists' = [dirExists EXCEPT ![s] = TRUE]
  /\ mtime' = [mtime EXCEPT ![s] = IF touch \/ ~dirExists[s] THEN now ELSE @]
  /\ SweepGoesOn
  /\ UNCHANGED <<cleanerPc, sessionDirs, cleanerNow, cleanerDir, poolVars, cmVars, monitorVars, appVars>>

\* The worker process exits; its directory stays.
StopWorker(s) ==
  /\ s \in procs
  /\ procs' = procs \ {s}
  /\ SweepGoesOn
  /\ UNCHANGED <<dirExists, mtime, cleanerPc, sessionDirs, cleanerNow, cleanerDir,
                 poolVars, cmVars, monitorVars, appVars>>

CleanerTick ==
  /\ now < MaxTime
  /\ now' = now + 1
  /\ out' = NoOut
  /\ SweepGoesOn
  /\ UNCHANGED <<browsers, browserStatus, inUse, live, call, started, dirExists, mtime, procs,
                 cleanerPc, sessionDirs, cleanerNow, cleanerDir, cmVars, monitorVars, appVars>>

NextCleaner ==
  \/ \E outcome \in DirOutcomes : CleanerStart(outcome)
  \/ \E s \in Sessions, statFails \in BOOLEAN : CleanerStat(s, statFails)
  \/ \E execFails \in BOOLEAN : CleanerLookup(execFails)
  \/ \E rmFails \in BOOLEAN : CleanerRemove(rmFails)
  \/ CleanerEnd
  \/ \E outcome \in DirOutcomes, removed \in BOOLEAN : CleanTempDirectory(outcome, removed)
  \/ \E outcome \in LogOutcomes : RotateLogFile(outcome)
  \/ \E execFails \in BOOLEAN : CleanBrowserCache(execFails)
  \/ \E outcome \in DirOutcomes, removed \in BOOLEAN : CleanWwebjsCache(outcome, removed)
  \/ \E s \in Sessions, touch \in BOOLEAN : StartWorker(s, touch)
  \/ \E s \in Sessions : StopWorker(s)
  \/ CleanerTick

SpecCleaner == Init /\ [][NextCleaner]_vars

\* One step of the sweep under way.  Every await of the sweep is on an fs
\* promise or on an exec of ps or find, which settle (resolve or reject), so
\* a sweep that can take a step eventually takes one.
SweepStep ==
  \/ \E s \in Sessions, statFails \in BOOLEAN : CleanerStat(s, statFails)
  \/ \E execFails \in BOOLEAN : CleanerLookup(execFails)
  \/ \E rmFails \in BOOLEAN : CleanerRemove(rmFails)
  \/ CleanerEnd
  \/ \E outcome \in DirOutcomes, removed \in BOOLEAN : CleanTempDirectory(outcome, removed)
  \/ \E outcome \in LogOutcomes : RotateLogFile(outcome)
  \/ \E execFails \in BOOLEAN : CleanBrowserCache(execFails)
  \/ \E outcome \in DirOutcomes, removed \in BOOLEAN : CleanWwebjsCache(outcome, removed)

SpecCleanerLive == Init /\ [][NextCleaner]_vars /\ WF_vars(SweepStep)

\* ------------------------------------------------------ the session monitor
(***************************************************************************)
(* this.sessions is a Map: its keys are kept in insertion order, and the   *)
(* for-of loop of performMonitoring iterates it live (an entry deleted     *)
(* during an await is skipped, an entry added is visited).  One sweep is   *)
(* followed at a time.  registerSession is called for ids whose supervisor *)
(* is alive and whose entry is not the one suspended at getState(), and a  *)
(* sweep visits at most MaxReport entries.  lastSeenAge and reconnectCount *)
(* hold the fields of the sessionInfo objects that can still be read: those *)
(* in the Map and the one checkSessionHealth is suspended on; the fields of *)
(* a dropped object read 0.  Every session is registered with a           *)
(* supervisor; only the supervisors of the sessions in Counted lose and    *)
(* restore their connection or are destroyed, the others stay as they are. *)
(***************************************************************************)
Ids(seq) == {seq[i] : i \in 1..Len(seq)}
Remove(seq, s) == SelectSeq(seq, LAMBDA x : x # s)

\* A listener is <<emitter, event, owner>>: the emitter is the session's
\* client or its supervisor, the owner the component that called on().
\* These are the events setupSessionListeners listens to.
MonitoredEvents ==
  {<<"client", "ready">>, <<"client", "disconnected">>, <<"client", "message">>,
   <<"manager", "connection:restored">>, <<"manager", "connection:failed">>}

\* setupSessionListeners: one listener of the monitor on each of the events
setupSessionListeners(ls) == ls \cup {<<e[1], e[2], "monitor">> : e \in MonitoredEvents}

\* removeSessionListeners: removeAllListeners(event) on each of the events
removeSessionListeners(ls) == {l \in ls : <<l[1], l[2]>> \notin MonitoredEvents}


\* checkSessionHealth up to its await: the status the age of lastSeen gives
TimeStatus(age) ==
  IF age > staleThreshold THEN "stale"
  ELSE IF age > unhealthyThreshold THEN "unhealthy"
  ELSE "healthy"

\* checkSessionHealth after its await: a closed page, a state other than
\* CONNECTED or an exception (ok = FALSE) make the session unhealthy and
\* add an issue to its entry
checkSessionHealth(entry, ok) ==
  [sessionId |-> entry.sessionId,
   status |-> IF ok THEN entry.status ELSE "unhealthy",
   reconnectCount |-> reconnectCount[entry.sessionId]]

\* the loop of performMonitoring, from the entry it visits next to its next await
Classify(todo, report, classified) ==
  /\ healthReport' = report
  /\ monitorOut' = classified
  /\ IF todo = <<>>
     THEN /\ monitorPc' = "save"
          /\ pending' = <<>>
          /\ probed' = NoProbe
     ELSE /\ monitorPc' = "probe"
          /\ pending' = Tail(todo)
          /\ probed' = [sessionId |-> Head(todo),
                        status |-> TimeStatus(lastSeenAge[Head(todo)])]

\* the loop of performCorrectiveActions, from the entry it visits next to its
\* next await or its end; while forceReconnect() is awaited the entry it was
\* called for stays at the head of the report
RECURSIVE Correct(_, _)
Correct(todo, acts) ==
  IF todo = <<>>
  THEN [pc |-> "idle", report |-> <<>>, acts |-> acts]
  ELSE LET e == Head(todo) IN
       IF e.sessionId \notin Ids(sessions)
       THEN Correct(Tail(todo), acts)
       ELSE IF e.status = "stale"
       THEN [pc |-> "force", report |-> todo,
             acts |-> acts \cup {<<"forceReconnect", e.sessionId>>}]
       ELSE IF e.status = "unhealthy" /\ e.reconnectCount > cleanupReconnectCount
       THEN Correct(Tail(todo), acts \cup {<<"session:cleanup", e.sessionId>>})
       ELSE Correct(Tail(todo), acts)

performCorrectiveActions(todo, logged) ==
  LET r == Correct(todo, logged) IN
  /\ monitorPc' = r.pc
  /\ healthReport' = r.report
  /\ monitorOut' = r.acts
  /\ UNCHANGED <<pending, probed>>

MonitorStart ==
  /\ ~isRunning
  /\ isRunning' = TRUE
  /\ monitorOut' = {}
  /\ UNCHANGED <<sessions, lastSeenAge, reconnectCount, monitorPc, pending, probed,
                 healthReport, managerDestroyed, listeners, errors,
                 poolVars, cmVars, cleanerVars, appVars>>

MonitorStop ==
  /\ isRunning
  /\ isRunning' = FALSE
  /\ monitorOut' = {}
  /\ UNCHANGED <<sessions, lastSeenAge, reconnectCount, monitorPc, pending, probed,
                 healthReport, managerDestroyed, listeners, errors,
                 poolVars, cmVars, cleanerVars, appVars>>

registerSession(s) ==
  /\ s \notin managerDestroyed
  /\ s # probed.sessionId
  /\ (monitorPc = "probe" /\ s \notin Ids(sessions))
       => Len(healthReport) + Len(pending) + 1 < MaxReport
  /\ sessions' = IF s \in Ids(sessions) THEN sessions ELSE Append(sessions, s)
  /\ pending' = IF monitorPc = "probe" /\ s \notin Ids(sessions)
                THEN Append(pending, s) ELSE pending
  /\ lastSeenAge' = [lastSeenAge EXCEPT ![s] = 0]
  /\ reconnectCount' = [reconnectCount EXCEPT ![s] = 0]
  /\ listeners' = [listeners EXCEPT ![s] = setupSessionListeners(@)]
  /\ errors' = [errors EXCEPT ![s] = 0]
  /\ monitorOut' = {}
  /\ UNCHANGED <<isRunning, monitorPc, probed, healthReport, managerDestroyed,
                 poolVars, cmVars, cleanerVars, appVars>>

unregisterSession(s) ==
  /\ s \in Ids(sessions)
  /\ sessions' = Remove(sessions, s)
  /\ pending' = Remove(pending, s)
  /\ lastSeenAge' = [lastSeenAge EXCEPT ![s] = 0]
  /\ reconnectCount' = [reconnectCount EXCEPT ![s] = IF s = probed.sessionId THEN @ ELSE 0]
  /\ listeners' = [listeners EXCEPT ![s] = removeSessionListeners(@)]
  /\ errors' = [errors EXCEPT ![s] = 0]
  /\ monitorOut' = {}
  /\ UNCHANGED <<isRunning, monitorPc, probed, healthReport,
                 managerDestroyed, poolVars, cmVars, cleanerVars, appVars>>

\* the listeners of 'ready' and 'message' on the registered client
ClientActivity(s) ==
  /\ s \in Ids(sessions)
  /\ lastSeenAge[s] > 0
  /\ lastSeenAge' = [lastSeenAge EXCEPT ![s] = 0]
  /\ monitorOut' = {}
  /\ UNCHANGED <<sessions, reconnectCount, isRunning, monitorPc, pending, probed,
                 healthReport, managerDestroyed, listeners, errors,
                 poolVars, cmVars, cleanerVars, appVars>>

\* the listener of 'connection:restored' on the registered supervisor
ConnectionRestored(s) ==
  /\ s \in Ids(sessions)
  /\ s \notin managerDestroyed
  /\ reconnectCount[s] < MaxReconnectCount
  /\ reconnectCount' = [reconnectCount EXCEPT ![s] = @ + 1]
  /\ lastSeenAge' = [lastSeenAge EXCEPT ![s] = 0]
  /\ monitorOut' = {}
  /\ UNCHANGED <<sessions, isRunning, monitorPc, pending, probed, healthReport,
                 managerDestroyed, listeners, errors,
                 poolVars, cmVars, cleanerVars, appVars>>

\* ConnectionManager.destroy() of the supervisor of session s runs to its end
SupervisorDestroyed(s) ==
  /\ s \notin managerDestroyed
  /\ managerDestroyed' = managerDestroyed \cup {s}
  /\ monitorOut' = {}
  /\ UNCHANGED <<sessions, lastSeenAge, reconnectCount, isRunning, monitorPc, pending,
                 probed, healthReport, listeners, errors,
                 poolVars, cmVars, cleanerVars, appVars>>

TimePasses ==
  /\ \E s \in Ids(sessions) : lastSeenAge[s] < MaxAge
  /\ lastSeenAge' = [s \in Monitored |->
                       IF s \in Ids(sessions) THEN Min(lastSeenAge[s] + 1, MaxAge) ELSE 0]
  /\ monitorOut' = {}
  /\ UNCHANGED <<sessions, reconnectCount, isRunning, monitorPc, pending, probed,
                 healthReport, managerDestroyed, listeners, errors,
                 poolVars, cmVars, cleanerVars, appVars>>

\* the monitoring timer fires
performMonitoring ==
  /\ isRunning
  /\ monitorPc = "idle"
  /\ Classify(sessions, <<>>, {})
  /\ UNCHANGED <<sessions, lastSeenAge, reconnectCount, isRunning, managerDestroyed,
                 listeners, errors,
                 poolVars, cmVars, cleanerVars, appVars>>

GetStateReturns(ok) ==
  /\ monitorPc = "probe"
  /\ Classify(pending, Append(healthReport, checkSessionHealth(probed, ok)),
              {<<"classified", probed.sessionId>>}
                \cup IF ok THEN {} ELSE {<<"issue", probed.sessionId>>})
  /\ reconnectCount' = [reconnectCount EXCEPT ![probed.sessionId] =
                          IF probed.sessionId \in Ids(sessions) THEN @ ELSE 0]
  /\ UNCHANGED <<sessions, lastSeenAge, isRunning, managerDestroyed,
                 listeners, errors,
                 poolVars, cmVars, cleanerVars, appVars>>

\* saveHealthReport has returned
SaveReturns ==
  /\ monitorPc = "save"
  /\ performCorrectiveActions(healthReport, {})
  /\ UNCHANGED <<sessions, lastSeenAge, reconnectCount, isRunning, managerDestroyed,
                 listeners, errors,
                 poolVars, cmVars, cleanerVars, appVars>>

\* forceReconnect() awaited outside the try block: when it throws, the pass ends.
ForceReconnectAborts(threw) ==
  /\ monitorPc = "force"
  /\ IF threw
       THEN /\ monitorPc' = "idle"
            /\ healthReport' = <<>>
            /\ monitorOut' = {<<"error", Head(healthReport).sessionId>>}
            /\ UNCHANGED <<pending, probed>>
       ELSE performCorrectiveActions(Tail(healthReport), {})
  /\ UNCHANGED <<sessions, lastSeenAge, reconnectCount, isRunning, managerDestroyed,
                 listeners, errors,
                 poolVars, cmVars, cleanerVars, appVars>>

\* the awaited connectionManager.forceReconnect() of the entry at the head of
\* the report has returned, or has thrown and the catch logged the error
ForceReconnectReturns(threw) ==
  /\ monitorPc = "force"
  /\ performCorrectiveActions(
       Tail(healthReport),
       IF threw THEN {<<"error", Head(healthReport).sessionId>>} ELSE {})
  /\ UNCHANGED <<sessions, lastSeenAge, reconnectCount, isRunning, managerDestroyed,
                 listeners, errors,
                 poolVars, cmVars, cleanerVars, appVars>>

NextMonitor ==
  \/ MonitorStart
  \/ MonitorStop
  \/ \E s \in Monitored : registerSession(s)
  \/ \E s \in Monitored : unregisterSession(s)
  \/ \E s \in Monitored : ClientActivity(s)
  \/ \E s \in Counted : ConnectionRestored(s)
  \/ \E s \in Counted : SupervisorDestroyed(s)
  \/ TimePasses
  \/ performMonitoring
  \/ \E ok \in BOOLEAN : GetStateReturns(ok)
  \/ SaveReturns
  \/ \E threw \in BOOLEAN : ForceReconnectReturns(threw)

SpecMonitor == Init /\ [][NextMonitor]_vars

(***************************************************************************)
(* The listeners and the error histories.  The client and the supervisor   *)
(* of a session carry listeners of other components as well: setupSession  *)
(* of app.js listens to the client's 'ready', 'disconnected' and 'message', *)
(* the supervisor listens to its client's 'disconnected' and, from its     *)
(* constructor, to its own 'connection:restored'.  A new client or a new    *)
(* supervisor is made for a session the monitor does not track.             *)
(***************************************************************************)
AppListeners ==
  {<<"client", "ready", "app">>, <<"client", "disconnected", "app">>,
   <<"client", "message", "app">>}

OnEmitter(ls, emitter) == {l \in ls : l[1] = emitter}

ListenersStep ==
  /\ monitorOut' = {}
  /\ UNCHANGED <<sessions, lastSeenAge, reconnectCount, isRunning, monitorPc, pending, probed,
                 healthReport, managerDestroyed, poolVars, cmVars, cleanerVars, appVars>>

\* app.js setupSession: a new client for the session, with the listeners
\* setupSession attaches to it
AppListens(s) ==
  /\ s \notin Ids(sessions)
  /\ AppListeners \ listeners[s] # {}
  /\ listeners' = [listeners EXCEPT ![s] = OnEmitter(@, "manager") \cup AppListeners]
  /\ UNCHANGED errors
  /\ ListenersStep

\* ConnectionManager constructor: a new supervisor for the session, with the
\* listener bindEvents attaches to 'connection:restored'
bindEvents(s) ==
  /\ s \notin Ids(sessions)
  /\ <<"manager", "connection:restored", "supervisor">> \notin listeners[s]
  /\ listeners' = [listeners EXCEPT ![s] =
                     OnEmitter(@, "client") \cup {<<"manager", "connection:restored", "supervisor">>}]
  /\ UNCHANGED errors
  /\ ListenersStep

\* ConnectionManager.setupClientEventListeners: the supervisor listens to
\* 'disconnected' of the client
setupClientEventListeners(s) ==
  /\ <<"client", "disconnected", "supervisor">> \notin listeners[s]
  /\ listeners' = [listeners EXCEPT ![s] = @ \cup {<<"client", "disconnected", "supervisor">>}]
  /\ UNCHANGED errors
  /\ ListenersStep

\* the client emits 'disconnected': the monitor's listener pushes an error
ClientEmitsDisconnected(s) ==
  /\ <<"client", "disconnected", "monitor">> \in listeners[s]
  /\ errors[s] < MaxErrors
  /\ errors' = [errors EXCEPT ![s] = @ + 1]
  /\ monitorOut' = {<<"session:disconnected", s>>}
  /\ UNCHANGED <<sessions, lastSeenAge, reconnectCount, isRunning, monitorPc, pending, probed,
                 healthReport, managerDestroyed, listeners,
                 poolVars, cmVars, cleanerVars, appVars>>

\* the supervisor emits 'connection:failed': the monitor's listener pushes an error
ManagerEmitsFailed(s) ==
  /\ <<"manager", "connection:failed", "monitor">> \in listeners[s]
  /\ errors[s] < MaxErrors
  /\ errors' = [errors EXCEPT ![s] = @ + 1]
  /\ monitorOut' = {<<"session:failed", s>>}
  /\ UNCHANGED <<sessions, lastSeenAge, reconnectCount, isRunning, monitorPc, pending, probed,
                 healthReport, managerDestroyed, listeners,
                 poolVars, cmVars, cleanerVars, appVars>>

NextListeners ==
  \/ \E s \in Monitored : registerSession(s)
  \/ \E s \in Monitored : unregisterSession(s)
  \/ \E s \in Monitored : AppListens(s)
  \/ \E s \in Monitored : bindEvents(s)
  \/ \E s \in Monitored : setupClientEventListeners(s)
  \/ \E s \in Monitored : ClientEmitsDisconnected(s)
  \/ \E s \in Monitored : ManagerEmitsFailed(s)

SpecListeners == Init /\ [][NextListeners]_vars

\* ------------------------------------------------- session setup (app.js)
(***************************************************************************)
(* setupSession is synchronous: it registers the client in the session map, *)
(* schedules client.initialize() with setImmediate and returns.  The       *)
(* callback runs before the next request is served; the pool call it makes *)
(* runs to completion, as under SpecPoolSerial.                            *)
(***************************************************************************)
ActiveSessions == appSessions \ pageClosed

Reply(sid, success) == [sid |-> sid, success |-> success]

\* setupSession(sessionId); threw: an exception on the synchronous path
\* (the catch cleans up and returns a failure)
setupSession(sid, threw) ==
  /\ immediates = {}
  /\ initLog' = NoLog
  /\ IF Cardinality(ActiveSessions) >= MAX_CONCURRENT_SESSIONS /\ sid \notin appSessions
       THEN /\ lastReply' = Reply(sid, FALSE)
            /\ out' = NoOut
            /\ UNCHANGED <<appSessions, pageClosed, immediates, browsers, browserStatus,
                           inUse, live>>
       ELSE IF sid \in ActiveSessions
       THEN /\ lastReply' = Reply(sid, TRUE)
            /\ out' = NoOut
            /\ UNCHANGED <<appSessions, pageClosed, immediates, browsers, browserStatus,
                           inUse, live>>
       ELSE IF threw
       THEN /\ lastReply' = Reply(sid, FALSE)
            /\ appSessions' = appSessions \ {sid}
            /\ pageClosed' = pageClosed \ {sid}
            /\ SetPool(Released(Pool, sid, now))
            /\ out' = Output("release", sid, "done")
            /\ UNCHANGED immediates
       ELSE /\ lastReply' = Reply(sid, TRUE)
            /\ appSessions' = appSessions \cup {sid}
            /\ pageClosed' = pageClosed \ {sid}
            /\ immediates' = immediates \cup {sid}
            /\ out' = NoOut
            /\ UNCHANGED <<browsers, browserStatus, inUse, live>>
  /\ UNCHANGED <<now, call, started, cmVars, cleanerVars, monitorVars>>

\* the setImmediate callback: the overridden client.initialize() asks the pool
\* for the worker; an error is logged and the session is kept
AutoInitialize(sid, ok) ==
  /\ sid \in immediates
  /\ immediates' = immediates \ {sid}
  /\ RunPool(GetStart(Pool, sid, now))
  /\ initLog' = [sid |-> sid,
                 result |-> IF out'.result \in {"capacity_exceeded", "launch_failed"}
                              THEN out'.result
                              ELSE IF ok THEN "initialized" ELSE "initialize_failed"]
  /\ UNCHANGED <<appSessions, pageClosed, lastReply, call, started, cmVars, cleanerVars,
                 monitorVars>>

\* client.on('disconnected') of setupSession
ClientDisconnected(sid) ==
  /\ sid \in appSessions
  /\ immediates = {}
  /\ SetPool(Released(Pool, sid, now))
  /\ out' = Output("release", sid, "done")
  /\ appSessions' = appSessions \ {sid}
  /\ pageClosed' = pageClosed \ {sid}
  /\ initLog' = NoLog
  /\ UNCHANGED <<immediates, lastReply, now, call, started, cmVars, cleanerVars,
                 monitorVars>>

\* the page of a registered client closes or crashes
PageCloses(sid) ==
  /\ sid \in ActiveSessions
  /\ immediates = {}
  /\ pageClosed' = pageClosed \cup {sid}
  /\ initLog' = NoLog
  /\ out' = NoOut
  /\ UNCHANGED <<appSessions, immediates, lastReply, browsers, browserStatus, inUse, live,
                 now, call, started, cmVars, cleanerVars, monitorVars>>

\* deleteSession: the client is removed from the map, then the pool destroys
\* the worker of the session
deleteSession(sid) ==
  /\ immediates = {}
  /\ appSessions' = appSessions \ {sid}
  /\ pageClosed' = pageClosed \ {sid}
  /\ RunPool(DestroyStart(Pool, sid))
  /\ initLog' = NoLog
  /\ UNCHANGED <<immediates, lastReply, call, started, cmVars, cleanerVars, monitorVars>>

AppTick ==
  /\ immediates = {}
  /\ now < MaxTime
  /\ now' = now + 1
  /\ out' = NoOut
  /\ initLog' = NoLog
  /\ UNCHANGED <<browsers, browserStatus, inUse, live, call, started, appSessions,
                 pageClosed, immediates, lastReply, cmVars, cleanerVars, monitorVars>>

NextApp ==
  \/ \E sid \in Sessions, threw \in BOOLEAN : setupSession(sid, threw)
  \/ \E sid \in Sessions, ok \in BOOLEAN : AutoInitialize(sid, ok)
  \/ \E sid \in Sessions : ClientDisconnected(sid)
  \/ \E sid \in Sessions : PageCloses(sid)
  \/ \E sid \in Sessions : deleteSession(sid)
  \/ AppTick

SpecApp == Init /\ [][NextApp]_vars

\* ------------------------------------------------------ claims on the pool
IdleTracked == {s \in Tracked(Pool) : s \notin inUse}
LeastRecentlyUsedIdle ==
  {s \in IdleTracked : \A o \in IdleTracked : browserStatus[s] <= browserStatus[o]}
SizeAfter == Cardinality({s \in Sessions : browsers'[s] # NoWorker})

\* C1: with the pool operations serialized, the number of live workers is at
\* most maxBrowsers in every reachable state.
C1_LiveWithinCapacitySerialized == Cardinality(live) <= maxBrowsers

\* C2: with overlapping getBrowserForSession calls of different sessions the
\* capacity check and the create-or-evict step never overcommit: the sessions
\* that have a live worker are at most maxBrowsers.
C2_NoOvercommitConcurrent ==
  Cardinality({Creator(w) : w \in live}) <= maxBrowsers

\* C3: at capacity with an idle worker present, getBrowserForSession for a
\* session without a worker succeeds: exactly one worker is destroyed, it is
\* the idle one with the least lastUsed, one new worker is created and the
\* pool size afterwards is maxBrowsers.
C3_EvictionAtCapacity ==
  [][\A sid \in Sessions :
       ( /\ Size(Pool) = maxBrowsers
         /\ IdleTracked # {}
         /\ browsers[sid] = NoWorker
         /\ SerialGet(sid)
         /\ out'.op = "get" /\ out'.sid = sid )
       => /\ out'.result = "created"
          /\ browsers'[sid] \notin live
          /\ \E v \in LeastRecentlyUsedIdle :
               /\ live' = (live \ {browsers[v]}) \cup {browsers'[sid]}
               /\ browsers[v] \in live
               /\ browsers'[v] = NoWorker
          /\ SizeAfter = maxBrowsers]_vars

\* C4: at capacity with every worker in use, getBrowserForSession for a
\* session without a worker fails with the capacity error and leaves
\* browsers, browserStatus and inUse (and the set of live workers) unchanged.
C4_CapacityExceeded ==
  [][\A sid \in Sessions :
       ( /\ Size(Pool) >= maxBrowsers
         /\ Tracked(Pool) \subseteq inUse
         /\ browsers[sid] = NoWorker
         /\ SerialGet(sid)
         /\ out'.op = "get" /\ out'.sid = sid )
       => /\ out'.result = "capacity_exceeded"
          /\ UNCHANGED <<browsers, browserStatus, inUse, live>>]_vars

\* C5: no worker is closed by eviction or by the idle sweep while its session
\* id is in inUse.
C5_InUseNeverReclaimed ==
  [][\A c \in Calls :
       ( /\ EvictFinish(c) \/ SweepFinish(c)
         /\ call[c].ref \in live
         /\ call[c].ref \notin live' )
       => ~(call[c].target \in inUse /\ browsers[call[c].target] = call[c].ref)]_vars

\* A refused acquire: the pool is full, every worker is in use, the session
\* owns none and the call just returned the capacity error.
C4_Witness ==
  \E sid \in Sessions :
    /\ out = Output("get", sid, "capacity_exceeded")
    /\ Size(Pool) >= maxBrowsers
    /\ Tracked(Pool) \subseteq inUse
    /\ browsers[sid] = NoWorker

\* C20: after a release, getBrowserForSession for a session whose worker is
\* still tracked and passes the probe returns that worker: no worker is
\* launched or closed, the session is marked in use and lastUsed is refreshed.
C20_ReleaseThenReuse ==
  [][\A sid \in Sessions :
       (/\ browsers[sid] # NoWorker /\ sid \notin inUse
        /\ SerialGet(sid) /\ out' = Output("get", sid, "reused"))
         => /\ browsers[sid] \in live
            /\ browsers' = browsers /\ live' = live
            /\ inUse' = inUse \cup {sid}
            /\ browserStatus' = [browserStatus EXCEPT ![sid] = now']]_vars

\* A released worker has been reused when the clock stood at its last value.
C20_Witness ==
  \E sid \in Sessions :
    /\ out = Output("get", sid, "reused")
    /\ sid \in inUse /\ browsers[sid] \in live
    /\ browserStatus[sid] = now /\ now = MaxTime

\* C22: destroyBrowserForSession(s) always ends with s removed from browsers,
\* browserStatus and inUse and with the worker it held terminated, also when
\* closing fails; for a session without a worker it changes nothing.
C22_DestroyCleansUp ==
  [][(out'.op = "destroy")
       => LET s == out'.sid IN
          IF browsers[s] = NoWorker
            THEN UNCHANGED <<browsers, browserStatus, inUse, live>>
            ELSE /\ browsers'[s] = NoWorker /\ browserStatus'[s] = NoStatus
                 /\ s \notin inUse' /\ browsers[s] \notin live']_vars

\* the idle tracked sessions whose worker process is alive
IdleLive == {o \in IdleTracked : browsers[o] \in live}

\* C25: getBrowserForSession(s) for a session without a bound worker, called
\* while another session's released worker is idle and alive, returns with
\* that idle worker bound to s and marked in use, and launches no worker.
C25_AcquireAssignsIdleWorker ==
  [][(/\ out'.op = "get" /\ out'.result \in {"created", "reused"}
      /\ browsers[out'.sid] = NoWorker /\ IdleLive # {})
       => /\ browsers'[out'.sid] \in {browsers[o] : o \in IdleLive}
          /\ out'.sid \in inUse'
          /\ live' \subseteq live]_vars

\* the positions of a suspended getBrowserForSession call
GetPcs == {"probe", "destroyUnhealthy", "evict", "launch"}

C32_ReleaseKeepsWorkers ==
  [][out'.op = "release" =>
       LET s == out'.sid IN
       /\ browsers' = browsers
       /\ live' = live
       /\ \A u \in Sessions \ {s} : browserStatus'[u] = browserStatus[u]
       /\ IF browsers[s] # NoWorker
            THEN /\ inUse' = inUse \ {s}
                 /\ browserStatus'[s] = now
            ELSE /\ inUse' = inUse
                 /\ browserStatus'[s] = browserStatus[s]]_vars

\* C33: in every reachable state browsers and browserStatus have the same
\* session ids as keys and inUse holds only such ids, also after a worker's
\* 'disconnected' fired while an acquire of its session was suspended at the
\* health probe.
C33_BookkeepingConsistent ==
  /\ Tracked(Pool) = HasStatus(Pool)
  /\ inUse \subseteq Tracked(Pool)

\* C34: every worker that was launched and has neither been closed nor
\* disconnected is recorded in browsers under the session it was launched
\* for; no acquire overwrites or drops the record of a worker that is alive.
C34_NoUntrackedLiveWorker == \A w \in live : browsers[Creator(w)] = w

\* ------------------------------------------------ claims on the supervisor
\* C6: once the maximum number of consecutive connect() failures is reached
\* the state is 'failed' and 'connection:failed' has been emitted; from then
\* on, until forceReconnect() is invoked, no reconnect timer is pending and no
\* connect attempt starts, whatever client events arrive.
C6_FailedIsTerminal ==
  /\ [](terminal => timeouts = 0)
  /\ [][ /\ (~terminal /\ terminal') => connectionState' = "failed"
         /\ (terminal /\ terminal') => <<"attempt", "">> \notin emitted' ]_vars

\* C7: a supervisor never has two connect() sequences in flight at once.
C7_OneConnectInFlight == waiting <= 1

\* C8: once connectionState is 'destroyed' it never takes another value.
C8_DestroyedIsTerminal ==
  [][connectionState = "destroyed" => connectionState' = "destroyed"]_vars

\* C9: after destroy() has been called no reconnect timer and no health-check
\* loop is pending, and none is started again.
C9_NoTimersAfterDestroy == isDestroyed => (timeouts = 0 /\ intervals = 0)

\* min(base * 2^a, cap), and the interval of 25% around it.
Nominal(a) == Min(baseReconnectDelay * 2^a, maxReconnectDelay)
WithinJitter(d, a) == 4 * d >= 3 * Nominal(a) /\ 4 * d <= 5 * Nominal(a)
Scheduled == <<"schedule", "">>

HealthCheckFailed == <<"connection:lost", "health_check_failed">>

\* C11: a probe of a connected supervisor whose page evaluation or state
\* query hangs is reported as failed within the probe timeout; the failed
\* probe moves the supervisor to 'disconnected', stops the health loop and
\* leaves exactly one reconnect pending, at the base delay within jitter.
C11_HungProbeFails ==
  /\ [](overdue = 0)
  /\ [][(HealthCheckFailed \in emitted' /\ connectionState = "connected" /\ ~isDestroyed)
          => /\ connectionState' = "disconnected"
             /\ ~healthCheckTimer' /\ intervals' = 0
             /\ timeouts' = 1
             /\ WithinJitter(finalDelay', 0)]_vars

Restored == <<"connection:restored", "">>

\* C14: reconnectAttempts changes only by +1 or by a reset to 0, and it is
\* reset only by a successful connect() or by forceReconnect() (whose own
\* connect() may fail at once and count 1 again).
C14_CounterStepsAndResets ==
  [][\/ reconnectAttempts' = reconnectAttempts
     \/ reconnectAttempts' = reconnectAttempts + 1
     \/ reconnectAttempts' = 0 /\ (Restored \in emitted' \/ CallForceReconnect)
     \/ reconnectAttempts' = 1 /\ CallForceReconnect]_vars

\* A successful connect() has reset a counter that had reached the maximum.
C14_Witness ==
  terminal /\ Restored \in emitted /\ reconnectAttempts = 0

LiveClients == {k \in Clients : clients[k].made /\ ~clients[k].destroyed}

\* C15: at most one client produced for a supervisor exists that has not
\* been destroyed.
C15_OneLiveClient == Cardinality(LiveClients) <= 1

\* C16: after destroy() has completed the client reference is null in every
\* later state.
C16_DestroyedHoldsNoClient == ~bound => client = NoClient

\* destroy() has completed while a connect() was still waiting.
C16_Witness == ~bound /\ waiting > 0 /\ client = NoClient

Lost == {<<"connection:lost", reason>> :
           reason \in LossReasons \cup {"health_check_failed"}}

\* C18: a loss signal handled by a non-destroyed supervisor sets
\* connectionState to 'disconnected', stops the health-check loop and leaves
\* exactly one reconnect timer pending; on a destroyed supervisor it schedules
\* no reconnect.
C18_LossHandling ==
  [][(emitted' \cap Lost # {})
       => IF ~isDestroyed
            THEN /\ connectionState' = "disconnected"
                 /\ ~healthCheckTimer' /\ intervals' = 0
                 /\ reconnectTimer' = "pending" /\ timeouts' = 1
            ELSE /\ Scheduled \notin emitted'
                 /\ timeouts' = timeouts]_vars

\* A non-destroyed supervisor that has created its second client has handled
\* a loss signal: it is disconnected with one reconnect timer pending.
C18_Witness ==
  /\ emitted \cap Lost # {} /\ ~isDestroyed
  /\ connectionState = "disconnected" /\ timeouts = 1 /\ clients[2].made

Attempt == <<"attempt", "">>

\* C19: forceReconnect() on a non-destroyed supervisor resets
\* reconnectAttempts to 0, destroys the current client, drops it once the
\* teardown has returned or thrown, and starts a connect() at once.
C19_ForceReconnect ==
  /\ [][(CallForceReconnect /\ ~isDestroyed)
          => IF client # NoClient
               THEN reconnectAttempts' = 0 /\ clients'[client].destroyed
               ELSE reconnectAttempts' \in {0, 1} /\ Attempt \in emitted']_vars
  /\ [][(ForceReturns /\ ~isDestroyed)
          => /\ client' # client => clients[client].destroyed
             /\ Attempt \in emitted']_vars

\* destroy() run from its call to its end, client.destroy() throwing or not
DestroyOnce(S, threw) ==
  LET D == destroyStart(S)
  IN IF D.destroying > S.destroying THEN destroyEnd(D, threw) ELSE D

\* a second destroy() called while the first one awaits client.destroy()
DestroyOverlapped(S, t1, t2) ==
  LET D1 == destroyStart(S)
      D2 == destroyStart(D1)
  IN IF D1.destroying > S.destroying THEN destroyEnd(destroyEnd(D2, t1), t2) ELSE D2

\* the fields of a supervisor, without what its last step logged
Fields(S) == [S EXCEPT !.emitted = {}, !.finalDelay = 0]

DestroyedState(S) ==
  /\ S.isDestroyed /\ S.connectionState = "destroyed" /\ S.client = NoClient
  /\ S.reconnectTimer = "null" /\ ~S.healthCheckTimer
  /\ S.timeouts = 0 /\ S.intervals = 0

DestroyLogged == <<"destroy", "">>
DestroyError == <<"error", "destroy">>

\* C21: destroy() is idempotent and tolerates a failing client teardown: from
\* every state, one complete call leaves the supervisor destroyed, without
\* client and timers, whether or not client.destroy() throws, and a second
\* call, after the first completed or while it still awaits the teardown,
\* leaves the same fields as the single call; a call on a destroyed
\* supervisor keeps it destroyed and without timers.
C21_DestroyIdempotent ==
  /\ [](\A t1, t2 \in BOOLEAN :
          /\ DestroyedState(DestroyOnce(CM, t1))
          /\ Fields(DestroyOnce(DestroyOnce(CM, t1), t2)) = Fields(DestroyOnce(CM, t1))
          /\ Fields(DestroyOverlapped(CM, t1, t2)) = Fields(DestroyOnce(CM, t1)))
  /\ [][(isDestroyed /\ DestroyLogged \in emitted')
          => /\ isDestroyed' /\ connectionState' = "destroyed"
             /\ reconnectTimer' = "null" /\ ~healthCheckTimer'
             /\ timeouts' = 0 /\ intervals' = 0
             /\ (client = NoClient => client' = NoClient)]_vars

\* the first of two overlapping destroy() calls has returned after its
\* client.destroy() threw, the second one still awaits
C21_Witness ==
  /\ DestroyError \in emitted /\ destroying = 1
  /\ isDestroyed /\ client = NoClient

\* C24: every step that schedules a reconnect increments reconnectAttempts by
\* one (counted from 0 when the step is a forceReconnect, which resets it),
\* after a failed connect() and after a loss alike.
C24_ScheduleIncrementsAttempts ==
  [][(Scheduled \in emitted')
       => \/ reconnectAttempts' = reconnectAttempts + 1
          \/ CallForceReconnect /\ reconnectAttempts' = 1]_vars

\* an event of client k reaches the supervisor's listeners
ClientEvent(k) ==
  \/ ChangeStateConnected(k)
  \/ \E reason \in LossReasons : ClientLoss(k, reason)

\* C35: only the current client changes the supervisor's state: an event of a
\* client that a later connect() replaced or that forceReconnect() or
\* destroy() dropped changes neither connectionState nor the reconnect timer.
C35_OnlyCurrentClientActs ==
  [][\A k \in Clients :
       (k # client /\ ClientEvent(k)) =>
         /\ connectionState' = connectionState
         /\ reconnectTimer' = reconnectTimer
         /\ timeouts' = timeouts
         /\ <<"schedule", "">> \notin emitted']_vars

\* C36: a failed health probe starts loss handling only when the supervisor
\* is still 'connected' (with the client the probe was started on) at the
\* moment the probe finishes: a probe that fails after a loss, a reconnect
\* or a forceReconnect leaves connectionState and the reconnect timer alone.
C36_LateProbeHasNoEffect ==
  [][(<<"connection:lost", "health_check_failed">> \in emitted'
        /\ connectionState # "connected") =>
       /\ connectionState' = connectionState
       /\ reconnectTimer' = reconnectTimer
       /\ timeouts' = timeouts
       /\ <<"schedule", "">> \notin emitted']_vars

\* C37: reconnectAttempts never exceeds maxReconnectAttempts.
C37_AttemptsBounded == reconnectAttempts <= maxReconnectAttempts

\* C39: a supervisor has at most one pending reconnect timer and at most one
\* active health-check interval at any time, and they are the ones its
\* fields refer to: scheduling a reconnect replaces the pending timer and
\* starting the health loop stops the running one.
C39_OneTimerOneInterval ==
  /\ timeouts <= 1
  /\ intervals <= 1
  /\ timeouts = 1 <=> reconnectTimer = "pending"
  /\ intervals = 1 <=> healthCheckTimer

\* a reconnect has just been scheduled while the health loop is running
C39_Witness ==
  /\ <<"schedule", "">> \in emitted
  /\ timeouts = 1
  /\ intervals = 1

\* ----------------------------------------------- claims on session setup
\* C23: when the pool rejects the worker acquisition of a session being set
\* up with the capacity error, the caller of setupSession got a failure
\* result and the session is not in the session map.
C23_CapacityErrorReachesRequester ==
  initLog.result = "capacity_exceeded"
    => /\ lastReply = Reply(initLog.sid, FALSE)
       /\ initLog.sid \notin appSessions

\* --------------------------------------------------- claims on the monitor
\* what the step just taken did for session s: a health classification, a
\* forced reconnection or a 'session:cleanup'
MonitorActs(s) == {a \in monitorOut : a[2] = s}

\* C17: once the supervisor of a session has been destroyed, the monitor no
\* longer tracks that session id, and neither classifies its health nor takes
\* a corrective action for it.
C17_DestroyedLeavesRegistry ==
  \A s \in managerDestroyed : s \notin Ids(sessions) /\ MonitorActs(s) = {}

\* the entries the corrective pass has yet to visit, the sessions the step
\* taken called forceReconnect() for, and the step being one of the pass
Rest == IF monitorPc = "force" THEN Tail(healthReport) ELSE healthReport
ForcedNow == {s \in Monitored : <<"forceReconnect", s>> \in monitorOut'}
CorrectiveStep ==
  /\ monitorPc \in {"save", "force"}
  /\ monitorPc' # monitorPc \/ healthReport' # healthReport
StaleTracked(e) == e.status = "stale" /\ e.sessionId \in Ids(sessions)

\* C27: in a sweep the corrective pass visits the report in order; it calls
\* forceReconnect() for an entry exactly when the entry is 'stale' and its
\* session is tracked, once, and waits for it; entries classified 'healthy'
\* or 'unhealthy' are passed without a call; after a forceReconnect() that
\* threw the pass goes on with the remaining entries in the same way; no
\* other step calls forceReconnect().
C27_StaleForcedOnce ==
  [][/\ ForcedNow # {} => CorrectiveStep
     /\ CorrectiveStep =>
          LET R == Rest
              k == Len(R) - Len(healthReport') + 1
          IN IF monitorPc' = "force"
               THEN /\ k \in 1..Len(R)
                    /\ healthReport' = SubSeq(R, k, Len(R))
                    /\ StaleTracked(R[k])
                    /\ \A i \in 1..(k - 1) : ~StaleTracked(R[i])
                    /\ ForcedNow = {R[k].sessionId}
               ELSE /\ monitorPc' = "idle" /\ healthReport' = <<>>
                    /\ \A i \in 1..Len(R) : ~StaleTracked(R[i])
                    /\ ForcedNow = {}]_vars

\* forceReconnect() of one stale session threw, and the same step went on to
\* call forceReconnect() for the other stale session
C27_Witness ==
  \E s, u \in Monitored :
    /\ s # u
    /\ <<"error", s>> \in monitorOut /\ <<"forceReconnect", u>> \in monitorOut

\* the status the inactivity thresholds alone give
ByInactivity(age) ==
  IF age > staleThreshold THEN "stale"
  ELSE IF age > unhealthyThreshold THEN "unhealthy" ELSE "healthy"

\* C28: a session inactive for longer than the stale threshold is entered in
\* the report as 'stale' whether or not its probe succeeded, one between the
\* two thresholds as 'unhealthy', and one below both as 'healthy' exactly
\* when the probe found an open page in state CONNECTED.
C28_Classification ==
  [][/\ (probed'.sessionId # NoSession /\ monitorPc \in {"idle", "probe"}
         /\ (monitorPc = "idle" \/ monitorOut' # {}))
          => probed'.status = ByInactivity(lastSeenAge[probed'.sessionId])
     /\ \A s \in Monitored :
          (<<"classified", s>> \in monitorOut')
            => LET e == healthReport'[Len(healthReport')]
                   failed == <<"issue", s>> \in monitorOut'
               IN /\ e.sessionId = s
                  /\ probed.status = "stale" => e.status = "stale"
                  /\ probed.status = "unhealthy" => e.status = "unhealthy"
                  /\ probed.status = "healthy"
                       => e.status = IF failed THEN "unhealthy" ELSE "healthy"]_vars

\* the entries a step of the corrective pass has finished with: the one whose
\* forceReconnect() it waited for, then those it passed without waiting
Finished ==
  LET R == Rest
      n == IF monitorPc' = "force" THEN Len(R) - Len(healthReport') ELSE Len(R)
  IN (IF monitorPc = "force" THEN <<Head(healthReport)>> ELSE <<>>) \o SubSeq(R, 1, n)

CleanedNow == {s \in Monitored : <<"session:cleanup", s>> \in monitorOut'}

\* C29: in a sweep 'session:cleanup' is emitted for every tracked session of
\* the report whose reconnect count exceeds the ceiling, whatever status the
\* sweep gave it, and for no other session.
C29_CleanupAboveCeiling ==
  [][/\ CleanedNow # {} => CorrectiveStep
     /\ CorrectiveStep =>
          CleanedNow = {Finished[i].sessionId : i \in
                          {j \in 1..Len(Finished) :
                             /\ Finished[j].sessionId \in Ids(sessions)
                             /\ Finished[j].reconnectCount > cleanupReconnectCount}}]_vars

\* -------------------------------------------------- claims on the reclaimer
\* C10: the reclaimer never deletes the directory session-<id> of a session
\* that has a live worker, whatever checkForActiveProcess answers and even if
\* the worker was started between the lookup and the removal.
C10_LiveSessionDirectoryKept ==
  [][\A s \in Sessions : (dirExists[s] /\ ~dirExists'[s]) => s \notin procs]_vars

\* the order in which performCleanup awaits its sub-steps
SweepOrder ==
  {<<"idle", SubSteps[1]>>, <<SubSteps[Len(SubSteps)], "idle">>}
    \cup {<<SubSteps[i], SubSteps[i + 1]>> : i \in 1..(Len(SubSteps) - 1)}

\* C30: a sweep (performCleanup, also when forceCleanup calls it) runs its
\* sub-steps one after the other, all of them, and returns a report: whatever
\* fails inside a sub-step or on a directory entry, a sub-step is left only
\* when every item of its list and every entry of the readdir snapshot has
\* been handled, the sweep ends only after the last sub-step, what it returns
\* is the report with no 'error' action from performCleanup's own catch, and a
\* sweep that has started does end.
C30_SweepRunsEverySubStep ==
  /\ [][/\ cleanupPc' # cleanupPc => <<cleanupPc, cleanupPc'>> \in SweepOrder
        /\ (cleanupPc' # cleanupPc /\ cleanupPc # "idle") =>
             /\ remaining <= 1
             /\ sessionDirs = {} /\ cleanerPc \in {"idle", "loop"}
        /\ (cleanupPc = "orphans" /\ cleanupPc' = "orphans") =>
             /\ sessionDirs' \subseteq sessionDirs
             /\ Cardinality(sessionDirs \ sessionDirs') <= 1
        /\ (cleanupPc # "idle" /\ cleanupPc' = "idle") <=> returned'.kind = "report"
        /\ returned'.kind = "report" =>
             /\ "error" \notin returned'.report.actions
             /\ "cleanup" \notin returned'.log
             /\ "browser_cache_cleaned" \in returned'.report.actions]_vars
  /\ (cleanupPc # "idle") ~> (cleanupPc = "idle")

\* a sweep has returned its report after an error on a directory entry and
\* an error in a sub-step
C30_Witness ==
  /\ returned.kind = "report"
  /\ {"entry", "substep"} \subseteq returned.log
  /\ "browser_cache_cleaned" \in returned.report.actions

\* ---------------------------------- claims on the monitor's error histories
\* C31: the error history of a tracked session never holds more than
\* recentErrors (5) entries, however many 'disconnected' and
\* 'connection:failed' events the session produces.
C31_ErrorHistoryBounded == \A s \in Ids(sessions) : errors[s] <= recentErrors

\* the listeners registerSession attaches
OwnListeners == setupSessionListeners({})

\* C38: unregisterSession(s) detaches only the listeners registerSession
\* attached for s: the listeners other components attached to the same
\* events of the client and of the supervisor stay, and the tracking of every
\* other session is unchanged.
C38_UnregisterDetachesOwnOnly ==
  [][\A s \in Monitored :
       (s \in Ids(sessions) /\ s \notin Ids(sessions')) =>
         /\ listeners'[s] = listeners[s] \ OwnListeners
         /\ \A u \in Monitored \ {s} :
              /\ u \in Ids(sessions') <=> u \in Ids(sessions)
              /\ listeners'[u] = listeners[u]
              /\ errors'[u] = errors[u]
              /\ lastSeenAge'[u] = lastSeenAge[u]
              /\ reconnectCount'[u] = reconnectCount[u]]_vars

=============================================================================
